---------------------------- MODULE Spec2Model ----------------------------
(***************************************************************************)
(* Model of src/main.py (MergeWindow): the file list of the window, the   *)
(* merge-to-PDF pipeline and the export-to-JPG pipeline.                   *)
(*                                                                         *)
(* A path is a record [stem, ext]: pathlib's split of the file name into   *)
(* Path.stem and Path.suffix; where files of several directories meet (the *)
(* inputs of an export) it has a field dir as well.  Rows are 0-based as   *)
(* in Qt.                                                                  *)
(***************************************************************************)
EXTENDS Integers, Sequences, FiniteSets, TLC

VARIABLES
    file_list,   \* QListWidget: sequence of items [text, data, sel]
    disk,        \* regular files present in the input directory
    feedback,    \* text of the feedback label
    last,        \* the last handler that ran and its inputs (history)
    \* _merge_files / _merge_into_pdf
    m_pc,        \* position: "idle", "loop", "write", "finally", "done"
    m_paths,     \* argument paths of _merge_into_pdf
    output_path, \* argument of _merge_into_pdf
    m_i,         \* index of the for loops (inputs, then temp_files)
    temp_files,  \* the list temp_files
    merger,      \* pages appended to the PdfMerger so far
    m_exc,       \* the exception in flight or raised ("none" if none)
    created,     \* temporary files this invocation created (history)
    tmpfs,       \* the temporary directory: file name -> pages of the PDF
    tmp_count,   \* number of NamedTemporaryFile calls so far
    outputs,     \* files written by merge: path -> pages of the PDF
    \* _export_to_jpg
    e_pc,        \* position: "idle", "file", "pages", "done"
    e_paths,     \* paths of _export_to_jpg
    e_i,         \* index of "for path in paths"
    e_page,      \* index of the page/frame loop of a converter (1-based)
    exported,    \* exported of the converter that is running
    exported_files, \* exported_files of _export_to_jpg
    issues,      \* issues of _export_to_jpg
    outdir,      \* the output directory: file name -> what the file holds
    outcomes,    \* how each path handled so far ended (history)
    nwrites      \* JPG files written by this run so far (history)

rvars == <<file_list, disk, feedback, last>>
mvars == <<m_pc, m_paths, output_path, m_i, temp_files, merger, m_exc, created,
           tmpfs, tmp_count, outputs>>
evars == <<e_pc, e_paths, e_i, e_page, exported, exported_files, issues,
           outdir, outcomes, nwrites>>
vars == <<rvars, mvars, evars>>

--------------------------------------------------------------------------
(* Bounds of the model *)

MaxList == 3
MaxBatch == 2
\* inputs of one merge, pages of a PDF input, frames of a TIFF input,
\* temporary files created over all merges
MaxInputs == 3
MaxPages == 3
MaxFrames == 2
MaxTemps == 3
\* inputs of one export, files in the output directory when a run starts
MaxExport == 2
MaxOutFiles == 3

--------------------------------------------------------------------------
(* Paths *)

P(stem, ext) == [stem |-> stem, ext |-> ext]

\* str.lower() on the suffixes the model uses
Lower(ext) ==
    CASE ext = ".PDF" -> ".pdf"
      [] ext = ".JPG" -> ".jpg"
      [] ext = ".TIF" -> ".tif"
      [] OTHER -> ext

SUPPORTED_EXTENSIONS == {".pdf", ".tif", ".tiff", ".jpg", ".jpeg"}

\* Path.name
Name(p) == p.stem \o p.ext

\* regular files present when the window opens
InitialDisk == {P("a", ".pdf"), P("b", ".PDF"), P("notes", ".txt")}

\* paths a file dialog or a drop can hand to _add_path_batch
Candidates == InitialDisk \cup {P("g", ".jpg")}

\* Path.is_file()
IsFile(p, d) == p \in d

\* Path.exists()
Exists(p, d) == p \in d

--------------------------------------------------------------------------
(* The list widget *)

Item(text, data, sel) == [text |-> text, data |-> data, sel |-> sel]

Count(list) == Len(list)

\* QListWidget.takeItem(row): the list without the item at row
TakeItem(list, row) ==
    [i \in 1..(Len(list) - 1) |-> IF i <= row THEN list[i] ELSE list[i + 1]]

\* QListWidget.insertItem(row, item)
InsertItem(list, row, item) ==
    [i \in 1..(Len(list) + 1) |->
        IF i <= row THEN list[i]
        ELSE IF i = row + 1 THEN item
        ELSE list[i - 1]]

\* rows of the selected items, as a set
SelectedRows(list) == {i - 1 : i \in {j \in 1..Len(list) : list[j].sel}}

NoLast == [op |-> "none", paths |-> <<>>, offset |-> 0, rows |-> {},
           perm |-> <<>>, row |-> 0, result |-> "none"]

--------------------------------------------------------------------------
(* _path_already_listed / _add_path_batch *)

PathAlreadyListed(list, path) ==
    \E index \in 1..Count(list) : list[index].data = path

RECURSIVE AddLoop_NoListedCheck(_, _, _, _)
\* AddLoop without the _path_already_listed test
AddLoop_NoListedCheck(list, paths, k, added) ==
    IF k > Len(paths) THEN [list |-> list, added |-> added]
    ELSE LET path == paths[k] IN
         IF ~IsFile(path, disk) THEN AddLoop_NoListedCheck(list, paths, k + 1, added)
         ELSE IF Lower(path.ext) \notin SUPPORTED_EXTENSIONS
              THEN AddLoop_NoListedCheck(list, paths, k + 1, added)
         ELSE AddLoop_NoListedCheck(Append(list, Item(Name(path), path, FALSE)),
                                    paths, k + 1, added + 1)

RECURSIVE AddLoop(_, _, _, _)
\* the for loop of _add_path_batch from paths[k] on; result [list, added]
AddLoop(list, paths, k, added) ==
    IF k > Len(paths) THEN [list |-> list, added |-> added]
    ELSE LET path == paths[k] IN
         IF ~IsFile(path, disk) THEN AddLoop(list, paths, k + 1, added)
         ELSE IF Lower(path.ext) \notin SUPPORTED_EXTENSIONS
              THEN AddLoop(list, paths, k + 1, added)
         ELSE IF PathAlreadyListed(list, path)
              THEN AddLoop(list, paths, k + 1, added)
         ELSE AddLoop(Append(list, Item(Name(path), path, FALSE)),
                      paths, k + 1, added + 1)

AddFeedback(added) ==
    IF added # 0 THEN "Added " \o ToString(added) \o " file(s)."
    ELSE "No new supported files were added."

Batches == UNION {[1..n -> Candidates] : n \in 0..MaxBatch}

AddPathBatch(paths) ==
    /\ Len(file_list) + Len(paths) <= MaxList
    /\ IF paths = <<>>
       THEN UNCHANGED <<file_list, feedback>>
       ELSE LET r == AddLoop(file_list, paths, 1, 0) IN
              /\ file_list' = r.list
              /\ feedback' = AddFeedback(r.added)
    /\ last' = [NoLast EXCEPT !.op = "add", !.paths = paths]
    /\ UNCHANGED <<disk, mvars, evars>>

--------------------------------------------------------------------------
(* selection by the user, _remove_selected *)

SetSelection(list, S) ==
    [i \in 1..Len(list) |-> [list[i] EXCEPT !.sel = ((i - 1) \in S)]]

\* the user clicks / shift-clicks rows of the list (ExtendedSelection)
Select(S) ==
    /\ S # SelectedRows(file_list)
    /\ file_list' = SetSelection(file_list, S)
    /\ last' = [NoLast EXCEPT !.op = "select"]
    /\ UNCHANGED <<disk, feedback, mvars, evars>>

\* the items that are not selected, in order
Unselected(list) == SelectSeq(list, LAMBDA it : ~it.sel)

RemoveSelected ==
    /\ SelectedRows(file_list) # {}
    /\ file_list' = Unselected(file_list)
    /\ feedback' = "Removed selected entries."
    /\ last' = [NoLast EXCEPT !.op = "remove"]
    /\ UNCHANGED <<disk, mvars, evars>>

--------------------------------------------------------------------------
(* _move_selection *)

RECURSIVE Sorted(_)
\* sorted(set of rows): ascending sequence
Sorted(S) ==
    IF S = {} THEN <<>>
    ELSE LET m == CHOOSE x \in S : \A y \in S : x <= y
         IN <<m>> \o Sorted(S \ {m})

Reversed(seq) == [i \in 1..Len(seq) |-> seq[Len(seq) + 1 - i]]

RECURSIVE MoveLoop(_, _, _, _)
\* the for loop of _move_selection from iterator[k] on
MoveLoop(list, iterator, k, offset) ==
    IF k > Len(iterator) THEN list
    ELSE LET row == iterator[k]
             target == row + offset
         IN IF target < 0 \/ target >= Count(list)
            THEN MoveLoop(list, iterator, k + 1, offset)
            ELSE LET item == list[row + 1]
                     taken == TakeItem(list, row)
                     moved == InsertItem(taken, target, [item EXCEPT !.sel = TRUE])
                 IN MoveLoop(moved, iterator, k + 1, offset)

\* the loop walks the rows in ascending order whatever the sign of offset
MoveSelectionList_Ascending(list, offset) ==
    MoveLoop(list, Sorted(SelectedRows(list)), 1, offset)

\* the list after _move_selection(offset), for a non-empty selection
MoveSelectionList(list, offset) ==
    LET selected_rows == Sorted(SelectedRows(list))
        iterator == IF offset < 0 THEN selected_rows ELSE Reversed(selected_rows)
    IN MoveLoop(list, iterator, 1, offset)

\* where each item came from: perm[i] is the old row of the item now at row i-1
MovePerm(list, offset) ==
    LET tagged == [i \in 1..Len(list) |-> Item("", i - 1, list[i].sel)]
        result == MoveSelectionList(tagged, offset)
    IN [i \in 1..Len(list) |-> result[i].data]

\* the Move Up and Move Down buttons
Offsets == {-1, 1}

MoveSelection(offset) ==
    /\ offset # 0
    /\ SelectedRows(file_list) # {}
    /\ file_list' = MoveSelectionList(file_list, offset)
    /\ feedback' = "Reordered selection."
    /\ last' = [NoLast EXCEPT !.op = "move", !.offset = offset,
                              !.rows = SelectedRows(file_list),
                              !.perm = MovePerm(file_list, offset)]
    /\ UNCHANGED <<disk, mvars, evars>>

--------------------------------------------------------------------------
(* _rename_item *)

\* what the user can type into the rename dialog (already stripped):
\* the name of a listed file, a name without extension, a blank name and
\* a name with an extension that is not supported
TypedNames == {P("a", ".pdf"), P("g", ""), P("", ""), P("x", ".docx")}

\* <<ok, yes, oserr>>: the dialog is cancelled; it is accepted and the
\* overwrite question (if asked) is answered No; it is accepted, answered
\* Yes and os.rename raises; it is accepted, answered Yes and the OS raises
\* nothing.  An answer that is not asked for and an OS error that is not
\* reached change nothing, so these four cover every combination.
Scenarios == {<<FALSE, FALSE, FALSE>>, <<TRUE, FALSE, FALSE>>,
              <<TRUE, TRUE, TRUE>>, <<TRUE, TRUE, FALSE>>}

UnsupportedMsg == "Unsupported extension. Keep the file as PDF, TIF, TIFF, or JPG."
RenameFailedMsg == "Failed to rename file: OSError"

\* os.rename(original, target) succeeds: the source is there and the OS
\* raises nothing (oserr: permissions, file in use, an existing target on
\* Windows)
OsRenameOk(original, target, d, oserr) ==
    original \in d /\ ~oserr

\* RenameOutcome with the item updated before os.rename is tried
RenameOutcome_UpdateFirst(list, d, fb, row, new_name, ok, yes, oserr) ==
    LET item == list[row + 1]
        original_path == item.data
        same == [list |-> list, disk |-> d, feedback |-> fb]
        new_suffix == Lower(new_name.ext)
        current_suffix == Lower(original_path.ext)
        target_path == IF new_suffix = ""
                       THEN P(new_name.stem, current_suffix)
                       ELSE new_name
        updated == [list EXCEPT ![row + 1] =
                       Item(Name(target_path), target_path, item.sel)]
    IN IF ~ok \/ Name(new_name) = ""
       THEN same @@ [result |-> "cancelled"]
       ELSE IF new_suffix # "" /\ new_suffix \notin SUPPORTED_EXTENSIONS
       THEN [same EXCEPT !.feedback = UnsupportedMsg]
            @@ [result |-> "UnsupportedExtension"]
       ELSE IF Exists(target_path, d) /\ ~yes
       THEN same @@ [result |-> "NameConflictDeclined"]
       ELSE IF ~OsRenameOk(original_path, target_path, d, oserr)
       THEN [list |-> updated, disk |-> d, feedback |-> RenameFailedMsg,
             result |-> "RenameFailed"]
       ELSE [list |-> updated,
             disk |-> (d \ {original_path}) \cup {target_path},
             feedback |-> "Renamed to " \o Name(target_path) \o ".",
             result |-> "ok"]

\* _rename_item on the item at row: [list, disk, feedback, result]
RenameOutcome(list, d, fb, row, new_name, ok, yes, oserr) ==
    LET item == list[row + 1]
        original_path == item.data
        same == [list |-> list, disk |-> d, feedback |-> fb]
        new_suffix == Lower(new_name.ext)
        current_suffix == Lower(original_path.ext)
        full_name == IF new_suffix = ""
                     THEN P(new_name.stem, current_suffix)
                     ELSE new_name
        target_path == full_name
    IN IF ~ok \/ Name(new_name) = ""
       THEN same @@ [result |-> "cancelled"]
       ELSE IF new_suffix # "" /\ new_suffix \notin SUPPORTED_EXTENSIONS
       THEN [same EXCEPT !.feedback = UnsupportedMsg]
            @@ [result |-> "UnsupportedExtension"]
       ELSE IF Exists(target_path, d) /\ ~yes
       THEN same @@ [result |-> "NameConflictDeclined"]
       ELSE IF ~OsRenameOk(original_path, target_path, d, oserr)
       THEN [same EXCEPT !.feedback = RenameFailedMsg]
            @@ [result |-> "RenameFailed"]
       ELSE [list |-> [list EXCEPT ![row + 1] =
                           Item(Name(target_path), target_path, item.sel)],
             disk |-> (d \ {original_path}) \cup {target_path},
             feedback |-> "Renamed to " \o Name(target_path) \o ".",
             result |-> "ok"]

\* _rename_item_inline (double click); _rename_selected is a run of these
\* steps, one for each selected item
RenameItem(row, new_name, ok, yes, oserr) ==
    /\ row \in 0..(Count(file_list) - 1)
    /\ LET r == RenameOutcome(file_list, disk, feedback, row, new_name, ok, yes, oserr)
       IN /\ file_list' = r.list
          /\ disk' = r.disk
          /\ feedback' = r.feedback
          /\ last' = [NoLast EXCEPT !.op = "rename", !.row = row,
                                    !.result = r.result]
    /\ UNCHANGED <<mvars, evars>>

--------------------------------------------------------------------------
(* _merge_files, _merge_into_pdf and the converters to PDF *)

\* a page of a PDF: the input it comes from and its number there
Page(path, n) == <<path, n>>

\* the documents merge is given: a PDF of MaxPages pages, a TIFF of
\* MaxFrames frames, a JPG (upper-case suffix) and a text file
MergeInputs == {P("j", ".JPG"), P("a", ".pdf"), P("c", ".tif")}
UnsupportedInputs == {P("notes", ".txt")}

\* pages of a PDF input as PdfMerger.append reads them
PdfPages(path) == [n \in 1..MaxPages |-> Page(path, n)]

\* ImageSequence.Iterator(image): the frames of a TIFF
Frames(path) == [n \in 1..MaxFrames |-> Page(path, n)]

\* _convert_tiff_to_pdf with save_all left out: the first frame only
TiffPdfPages_FirstFrameOnly(path) == <<Frames(path)[1]>>

\* the PDF _convert_tiff_to_pdf saves: frames[0] and append_images=frames[1:]
TiffPdfPages(path) == <<Frames(path)[1]>> \o Tail(Frames(path))

\* the PDF _convert_image_to_pdf saves: the image as one page
ImagePdfPages(path) == <<Page(path, 1)>>

\* _gather_paths
GatherPaths(list) == [index \in 1..Count(list) |-> list[index].data]

\* what the save dialog returns (merged.pdf, merged, merged.txt) is
\* normalised by _merge_files to a name ending in .pdf
OutputChoices == {P("merged", ".pdf"), P("merged", ""), P("merged", ".txt")}

NormalizeOutput(p) ==
    IF Lower(p.ext) # ".pdf"
    THEN IF p.ext # "" THEN P(p.stem, ".pdf") ELSE P(Name(p), ".pdf")
    ELSE p

\* tempfile.NamedTemporaryFile(delete=False, suffix=".pdf"): a fresh name
NewTemp == tmp_count + 1

\* entry into _merge_into_pdf(paths, output_path); pypdf2_missing: the
\* import of PyPDF2 raises before the try block
MergeIntoPdf(ps, out, pypdf2_missing) ==
    /\ m_paths' = ps
    /\ output_path' = out
    /\ temp_files' = <<>>
    /\ merger' = <<>>
    /\ created' = {}
    /\ m_i' = 1
    /\ IF pypdf2_missing
       THEN m_pc' = "done" /\ m_exc' = "ImportError"
       ELSE m_pc' = "loop" /\ m_exc' = "none"
    /\ UNCHANGED <<tmpfs, tmp_count, outputs>>

\* _merge_files up to its call of _merge_into_pdf
MergeFiles(choice, pypdf2_missing) ==
    /\ m_pc = "idle"
    /\ GatherPaths(file_list) # <<>>
    /\ tmp_count + Len(file_list) <= MaxTemps
    /\ MergeIntoPdf(GatherPaths(file_list), NormalizeOutput(choice), pypdf2_missing)
    /\ last' = [NoLast EXCEPT !.op = "merge"]
    /\ UNCHANGED <<file_list, disk, feedback, evars>>

\* _merge_into_pdf called with paths that did not pass the list's filter
MergeDirect(ps, out) ==
    /\ m_pc = "idle"
    /\ tmp_count + Len(ps) <= MaxTemps
    /\ MergeIntoPdf(ps, out, FALSE)
    /\ last' = [NoLast EXCEPT !.op = "merge_direct"]
    /\ UNCHANGED <<file_list, disk, feedback, evars>>

\* the failure is noted and the for loop goes on with the next path
Raise_Continue(exc) ==
    /\ m_exc' = exc
    /\ m_i' = m_i + 1
    /\ m_pc' = IF m_i = Len(m_paths) THEN "write" ELSE "loop"

\* an exception leaves the try block: the finally clause runs
Raise(exc) ==
    /\ m_exc' = exc
    /\ m_pc' = "finally"
    /\ m_i' = 1

\* the for loop goes on to the next path, or to the write after the last
NextPath ==
    /\ m_exc' = m_exc
    /\ m_i' = m_i + 1
    /\ m_pc' = IF m_i = Len(m_paths) THEN "write" ELSE "loop"

AtPath(suffixes) ==
    /\ m_pc = "loop"
    /\ m_i <= Len(m_paths)
    /\ Lower(m_paths[m_i].ext) \in suffixes

\* suffix == ".pdf": merger.append(path); it raises on an unreadable file
AppendPdf(o) ==
    /\ AtPath({".pdf"})
    /\ \/ o = "ok" /\ merger' = merger \o PdfPages(m_paths[m_i]) /\ NextPath
       \/ o = "fail" /\ merger' = merger /\ Raise("ConversionFailed")
    /\ UNCHANGED <<rvars, evars, m_paths, output_path, temp_files, created, tmpfs,
                   tmp_count, outputs>>

\* a converter and the two statements after its call.  o says how far the
\* converter gets: "import" (Pillow missing), "decode" (Image.open or a
\* frame raises), "save" (the temporary file is created and save raises),
\* "append" (the converter returns and merger.append raises), "ok"
Convert(o, pages) ==
    LET temp_pdf == NewTemp IN
    \/ /\ o = "import"
       /\ Raise("ImportError")
       /\ UNCHANGED <<temp_files, merger, created, tmpfs, tmp_count>>
    \/ /\ o = "decode"
       /\ Raise("ConversionFailed")
       /\ UNCHANGED <<temp_files, merger, created, tmpfs, tmp_count>>
    \/ /\ o = "save"
       /\ tmp_count' = tmp_count + 1
       /\ tmpfs' = tmpfs @@ (temp_pdf :> <<>>)
       /\ created' = created \cup {temp_pdf}
       /\ Raise("ConversionFailed")
       /\ UNCHANGED <<temp_files, merger>>
    \/ /\ o = "append"
       /\ tmp_count' = tmp_count + 1
       /\ tmpfs' = tmpfs @@ (temp_pdf :> pages)
       /\ created' = created \cup {temp_pdf}
       /\ temp_files' = Append(temp_files, temp_pdf)
       /\ Raise("ConversionFailed")
       /\ UNCHANGED merger
    \/ /\ o = "ok"
       /\ tmp_count' = tmp_count + 1
       /\ tmpfs' = tmpfs @@ (temp_pdf :> pages)
       /\ created' = created \cup {temp_pdf}
       /\ temp_files' = Append(temp_files, temp_pdf)
       /\ merger' = merger \o pages
       /\ NextPath

ConvertOutcomes == {"import", "decode", "save", "append", "ok"}

\* suffix in {".tif", ".tiff"}
ConvertTiff(o) ==
    /\ AtPath({".tif", ".tiff"})
    /\ Convert(o, TiffPdfPages(m_paths[m_i]))
    /\ UNCHANGED <<rvars, evars, m_paths, output_path, outputs>>

\* suffix in {".jpg", ".jpeg"}
ConvertImage(o) ==
    /\ AtPath({".jpg", ".jpeg"})
    /\ Convert(o, ImagePdfPages(m_paths[m_i]))
    /\ UNCHANGED <<rvars, evars, m_paths, output_path, outputs>>

\* else: raise ValueError("Unsupported file encountered")
Unsupported ==
    /\ AtPath({".txt", ".docx", ""})
    /\ Raise("UnsupportedFile")
    /\ UNCHANGED <<rvars, evars, m_paths, output_path, temp_files, merger, created,
                   tmpfs, tmp_count, outputs>>

\* with open(output_path, "wb") as handle: merger.write(handle)
\* o: "open" (open raises), "write" (the file is opened, write raises), "ok"
WriteOutput(o) ==
    /\ m_pc = "write"
    /\ \/ o = "open" /\ outputs' = outputs /\ m_exc' = "WriteFailed"
       \/ /\ o = "write"
          /\ outputs' = [x \in DOMAIN outputs \cup {output_path} |->
                            IF x = output_path THEN <<>> ELSE outputs[x]]
          /\ m_exc' = "WriteFailed"
       \/ /\ o = "ok"
          /\ outputs' = [x \in DOMAIN outputs \cup {output_path} |->
                            IF x = output_path THEN merger ELSE outputs[x]]
          /\ m_exc' = m_exc
    /\ m_pc' = "finally"
    /\ m_i' = 1
    /\ UNCHANGED <<rvars, evars, m_paths, output_path, temp_files, merger, created,
                   tmpfs, tmp_count>>

WriteOutcomes == {"open", "write", "ok"}

\* finally: one round of "for temp_file in temp_files: unlink".
\* FileNotFoundError is passed over; any other OSError (oserr) leaves the
\* loop and the function, in place of the exception in flight
Unlink(oserr) ==
    /\ m_pc = "finally"
    /\ m_i <= Len(temp_files)
    /\ LET temp_file == temp_files[m_i] IN
         IF oserr
         THEN /\ m_exc' = "UnlinkFailed"
              /\ m_pc' = "done"
              /\ UNCHANGED <<tmpfs, m_i>>
         ELSE /\ tmpfs' = [x \in DOMAIN tmpfs \ {temp_file} |-> tmpfs[x]]
              /\ m_i' = m_i + 1
              /\ UNCHANGED <<m_pc, m_exc>>
    /\ UNCHANGED <<rvars, evars, m_paths, output_path, temp_files, merger, created,
                   tmp_count, outputs>>

\* the finally clause is through: _merge_into_pdf returns or re-raises
MergeExit ==
    /\ m_pc = "finally"
    /\ m_i > Len(temp_files)
    /\ m_pc' = "done"
    /\ UNCHANGED <<rvars, evars, m_paths, output_path, m_i, temp_files, merger, m_exc,
                   created, tmpfs, tmp_count, outputs>>

MergeMessage ==
    IF m_exc = "none"
    THEN "Merged " \o ToString(Len(m_paths)) \o " file(s) into "
         \o Name(output_path) \o "."
    ELSE IF m_exc = "ImportError"
    THEN "Missing dependency: " \o m_exc
         \o ". Install the required package and try again."
    ELSE "Merge failed: " \o m_exc

\* _merge_files after the call: the error or the success message
MergeReport ==
    /\ m_pc = "done"
    /\ m_pc' = "idle"
    /\ feedback' = MergeMessage
    /\ UNCHANGED <<file_list, disk, last, evars, m_paths, output_path, m_i, temp_files,
                   merger, m_exc, created, tmpfs, tmp_count, outputs>>

--------------------------------------------------------------------------

--------------------------------------------------------------------------
(* _export_to_jpg, the converters to JPG and _resolve_conflict_path *)

\* a listed file with its directory: files of the same name can be listed
\* from different directories
D(dir, stem, ext) == [dir |-> dir, stem |-> stem, ext |-> ext]

\* the documents export is given: a PDF of MaxPages pages, a TIFF of
\* MaxFrames frames with the PDF's stem, and two JPGs of the same name
ExportInputs == {D("d1", "x", ".pdf"), D("d1", "x", ".TIF"),
                 D("d1", "p", ".jpg"), D("d2", "p", ".jpg")}

\* f"{index:03d}"
Pad3(index) ==
    IF index < 10 THEN "00" \o ToString(index)
    ELSE IF index < 100 THEN "0" \o ToString(index)
    ELSE ToString(index)

\* Path.with_stem
WithStem(path, stem) == [path EXCEPT !.stem = stem]

\* _resolve_conflict_path that hands the path back as it is
ResolveConflictPath_Unchanged(path, files) == path

\* _resolve_conflict_path that tries the suffix _1 and returns it unchecked
ResolveConflictPath_OneTry(path, files) ==
    IF path \notin files THEN path
    ELSE WithStem(path, path.stem \o "_" \o ToString(1))

RECURSIVE ResolveFrom(_, _, _)
\* the while loop of _resolve_conflict_path from counter on
ResolveFrom(path, files, counter) ==
    LET candidate == WithStem(path, path.stem \o "_" \o ToString(counter))
    IN IF candidate \notin files THEN candidate
       ELSE ResolveFrom(path, files, counter + 1)

\* _resolve_conflict_path(path) in a directory that holds files
ResolveConflictPath(path, files) ==
    IF path \notin files THEN path ELSE ResolveFrom(path, files, 1)

\* the file name a converter asks for, before conflict resolution
PageTarget(path, index) == P(path.stem \o "_page" \o Pad3(index), ".jpg")
FrameTarget(path, index) == P(path.stem \o "_frame" \o Pad3(index), ".jpg")
CopyTarget(path) == P(path.stem, path.ext)

\* the pages of a document the page loop of a converter runs over
DocLength(path) ==
    IF Lower(path.ext) = ".pdf" THEN MaxPages ELSE MaxFrames

\* a file is written at target: pixmap.save, Image.save, shutil.copy2
WriteFile(files, target, content) ==
    [x \in DOMAIN files \cup {target} |->
        IF x = target THEN content ELSE files[x]]

\* the text of the exception a failure raises
ExcText(kind, path) ==
    CASE kind = "UnsupportedFile" ->
            "Unsupported file encountered: " \o path.dir \o "/" \o Name(path)
      [] kind = "MissingDependency" -> "a required package is missing"
      [] OTHER -> "cannot convert file"

\* issues.append(f"{Path(path).name}: {exc}")
Issue(kind, path) == Name(path) \o ": " \o ExcText(kind, path)

\* _export_to_jpg up to its for loop (a destination was chosen)
ExportToJpg ==
    /\ e_pc \in {"idle", "done"}
    /\ GatherPaths(file_list) # <<>>
    /\ Cardinality(DOMAIN outdir) <= MaxOutFiles
    /\ e_paths' = GatherPaths(file_list)
    /\ e_pc' = "file"
    /\ e_i' = 1
    /\ e_page' = 1
    /\ exported' = 0
    /\ exported_files' = 0
    /\ issues' = <<>>
    /\ outcomes' = <<>>
    /\ nwrites' = 0
    /\ last' = [NoLast EXCEPT !.op = "export"]
    /\ UNCHANGED <<file_list, disk, feedback, mvars, outdir>>

\* the failure of one path is noted and ends the whole export
FileFails_Abort(kind) ==
    /\ issues' = Append(issues, Issue(kind, e_paths[e_i]))
    /\ outcomes' = Append(outcomes, kind)
    /\ e_i' = e_i + 1
    /\ e_pc' = "done"
    /\ UNCHANGED <<exported_files, feedback>>

\* except Exception: the failure of one path is noted, the loop goes on
FileFails(kind) ==
    /\ issues' = Append(issues, Issue(kind, e_paths[e_i]))
    /\ outcomes' = Append(outcomes, kind)
    /\ e_i' = e_i + 1
    /\ e_pc' = "file"
    /\ UNCHANGED <<exported_files, feedback>>

\* except ImportError: the error is shown and _export_to_jpg returns
ImportFails ==
    /\ outcomes' = Append(outcomes, "MissingDependency")
    /\ feedback' = "Missing dependency: " \o ExcText("MissingDependency", e_paths[e_i])
                   \o ". Install the required package and try again."
    /\ e_pc' = "done"
    /\ UNCHANGED <<issues, e_i, exported_files>>

\* the converter returned count: exported_files += count
FileDone(count) ==
    /\ exported_files' = exported_files + count
    /\ outcomes' = Append(outcomes, "ok")
    /\ e_i' = e_i + 1
    /\ e_pc' = "file"
    /\ UNCHANGED <<issues, feedback>>

\* one round of "for path in paths": _convert_file_to_jpg dispatches on the
\* suffix.  o: "import" (fitz or Pillow is missing), "open" (the document
\* cannot be opened, the JPG cannot be copied), "ok"
ConvertFileToJpg(o) ==
    /\ e_pc = "file"
    /\ e_i <= Len(e_paths)
    /\ LET path == e_paths[e_i]
           suffix == Lower(path.ext)
       IN IF suffix \in {".pdf", ".tif", ".tiff"}
          THEN \/ /\ o = "import"
                  /\ ImportFails
                  /\ UNCHANGED <<e_page, exported, outdir, nwrites>>
               \/ /\ o = "open"
                  /\ FileFails("ConversionFailed")
                  /\ UNCHANGED <<e_page, exported, outdir, nwrites>>
               \/ /\ o = "ok"
                  /\ e_pc' = "pages"
                  /\ e_page' = 1
                  /\ exported' = 0
                  /\ UNCHANGED <<e_i, exported_files, issues, outcomes,
                                 outdir, nwrites, feedback>>
          ELSE IF suffix \in {".jpg", ".jpeg"}
          THEN \/ /\ o = "open"
                  /\ FileFails("ConversionFailed")
                  /\ UNCHANGED <<e_page, exported, outdir, nwrites>>
               \/ /\ o = "ok"
                  /\ LET target == ResolveConflictPath(CopyTarget(path), DOMAIN outdir)
                     IN outdir' = WriteFile(outdir, target, <<path, 1>>)
                  /\ nwrites' = nwrites + 1
                  /\ FileDone(1)
                  /\ UNCHANGED <<e_page, exported>>
          ELSE /\ o = "ok"
               /\ FileFails("UnsupportedFile")
               /\ UNCHANGED <<e_page, exported, outdir, nwrites>>
    /\ UNCHANGED <<file_list, disk, last, mvars, e_paths>>

\* one round of the page loop of _convert_pdf_to_jpg or the frame loop of
\* _convert_tiff_to_jpg, or the return after the last round.
\* o: "fail" (rendering, converting or saving raises), "ok"
ConvertPage(o) ==
    /\ e_pc = "pages"
    /\ LET path == e_paths[e_i]
           index == e_page
           wanted == IF Lower(path.ext) = ".pdf"
                     THEN PageTarget(path, index)
                     ELSE FrameTarget(path, index)
       IN IF index > DocLength(path)
          THEN /\ o = "ok"
               /\ FileDone(exported)
               /\ UNCHANGED <<e_page, exported, outdir, nwrites>>
          ELSE \/ /\ o = "fail"
                  /\ FileFails("ConversionFailed")
                  /\ UNCHANGED <<e_page, exported, outdir, nwrites>>
               \/ /\ o = "ok"
                  /\ LET target == ResolveConflictPath(wanted, DOMAIN outdir)
                     IN outdir' = WriteFile(outdir, target, <<path, index>>)
                  /\ nwrites' = nwrites + 1
                  /\ exported' = exported + 1
                  /\ e_page' = e_page + 1
                  /\ UNCHANGED <<e_pc, e_i, exported_files, issues, outcomes, feedback>>
    /\ UNCHANGED <<file_list, disk, last, mvars, e_paths>>

\* after the loop: the count is shown, or that nothing was exported
ExportFinish ==
    /\ e_pc = "file"
    /\ e_i > Len(e_paths)
    /\ e_pc' = "done"
    /\ feedback' = IF exported_files # 0
                   THEN "Exported " \o ToString(exported_files)
                        \o " JPG file(s) to out."
                   ELSE "No JPG files were exported."
    /\ UNCHANGED <<file_list, disk, last, mvars, e_paths, e_i, e_page, exported,
                   exported_files, issues, outdir, outcomes, nwrites>>

EmptyFiles == [x \in {} |-> <<>>]

MergeIdle ==
    /\ m_pc = "idle"
    /\ m_paths = <<>>
    /\ output_path = P("", "")
    /\ m_i = 1
    /\ temp_files = <<>>
    /\ merger = <<>>
    /\ m_exc = "none"
    /\ created = {}
    /\ tmpfs = EmptyFiles
    /\ tmp_count = 0
    /\ outputs = EmptyFiles

ExportIdle ==
    /\ e_pc = "idle"
    /\ e_paths = <<>>
    /\ e_i = 1
    /\ e_page = 1
    /\ exported = 0
    /\ exported_files = 0
    /\ issues = <<>>
    /\ outcomes = <<>>
    /\ nwrites = 0

Init ==
    /\ file_list = <<>>
    /\ disk = InitialDisk
    /\ feedback = ""
    /\ last = NoLast
    /\ MergeIdle
    /\ ExportIdle
    /\ outdir = EmptyFiles

NextRegistry ==
    \/ \E paths \in Batches : AddPathBatch(paths)
    \/ \E S \in SUBSET (0..(Count(file_list) - 1)) : Select(S)
    \/ RemoveSelected
    \/ \E offset \in Offsets : MoveSelection(offset)
    \/ \E row \in 0..(Count(file_list) - 1), new_name \in TypedNames, sc \in Scenarios :
            RenameItem(row, new_name, sc[1], sc[2], sc[3])

SpecRegistry == Init /\ [][NextRegistry]_vars

\* the lists the merge button can find: up to MaxInputs supported files
MergeLists ==
    UNION {[1..n -> {Item(Name(p), p, FALSE) : p \in MergeInputs}] : n \in 0..MaxInputs}

\* path lists with an unsupported file in them
DirectPaths ==
    {ps \in UNION {[1..n -> MergeInputs \cup UnsupportedInputs] : n \in 1..2} :
        \E k \in 1..Len(ps) : ps[k] \in UnsupportedInputs}

InitMerge ==
    /\ file_list \in MergeLists
    /\ disk = MergeInputs
    /\ feedback = ""
    /\ last = NoLast
    /\ MergeIdle
    /\ ExportIdle
    /\ outdir = EmptyFiles

NextMerge ==
    \/ \E choice \in OutputChoices, missing \in BOOLEAN : MergeFiles(choice, missing)
    \/ \E ps \in DirectPaths : MergeDirect(ps, P("merged", ".pdf"))
    \/ \E o \in {"ok", "fail"} : AppendPdf(o)
    \/ \E o \in ConvertOutcomes : ConvertTiff(o)
    \/ \E o \in ConvertOutcomes : ConvertImage(o)
    \/ Unsupported
    \/ \E o \in WriteOutcomes : WriteOutput(o)
    \/ \E oserr \in BOOLEAN : Unlink(oserr)
    \/ MergeExit
    \/ MergeReport

SpecMerge == InitMerge /\ [][NextMerge]_vars

\* the lists the export button can find: up to MaxExport supported files
ExportLists ==
    UNION {[1..n -> {Item(Name(p), p, FALSE) : p \in ExportInputs}] : n \in 1..MaxExport}

\* files that can be in the output directory before the first export
PreExisting == {P("p", ".jpg"), P("x_page001", ".jpg")}

InitExport ==
    /\ file_list \in ExportLists
    /\ disk = ExportInputs
    /\ feedback = ""
    /\ last = NoLast
    /\ MergeIdle
    /\ ExportIdle
    /\ \E S \in SUBSET PreExisting : outdir = [x \in S |-> <<"old">>]

NextExport ==
    \/ ExportToJpg
    \/ \E o \in {"import", "open", "ok"} : ConvertFileToJpg(o)
    \/ \E o \in {"fail", "ok"} : ConvertPage(o)
    \/ ExportFinish

SpecExport == InitExport /\ [][NextExport]_vars

--------------------------------------------------------------------------
(* Properties of the file list *)

\* C1: no two entries of the file list hold the same absolute path, after
\* any sequence of add, remove, reorder and rename (overwrite confirmed
\* included).
C1_UniquePaths ==
    \A i, j \in 1..Len(file_list) :
        i # j => file_list[i].data # file_list[j].data

\* the positions of the batch whose path _add_path_batch must append: a
\* regular file, a supported extension, not listed and not earlier in the
\* batch
Accepted(list, paths, d) ==
    {k \in 1..Len(paths) :
        /\ paths[k] \in d
        /\ Lower(paths[k].ext) \in {".pdf", ".tif", ".tiff", ".jpg", ".jpeg"}
        /\ \A i \in 1..Len(list) : list[i].data # paths[k]
        /\ \A j \in 1..(k - 1) : paths[j] # paths[k]}

\* C5: add(paths) keeps the existing entries in place and appends, in input
\* order, exactly the paths that are regular files with a supported
\* extension and not yet present; the count it reports is the number of
\* entries appended.
C5_AddAppendsAccepted ==
    [][last'.op = "add" =>
        LET paths == last'.paths
            acc == Sorted(Accepted(file_list, paths, disk))
            n == Len(acc)
            old == Len(file_list)
        IN /\ Len(file_list') = old + n
           /\ \A i \in 1..old : file_list'[i] = file_list[i]
           /\ \A m \in 1..n :
                 /\ file_list'[old + m].data = paths[acc[m]]
                 /\ file_list'[old + m].text = Name(paths[acc[m]])
           /\ paths # <<>> =>
                 feedback' = IF n > 0
                             THEN "Added " \o ToString(n) \o " file(s)."
                             ELSE "No new supported files were added."
    ]_vars

\* an add of two paths onto a non-empty list that appended one of them and
\* skipped one with an unsupported extension or one already listed
C5_Witness ==
    /\ last.op = "add"
    /\ Len(last.paths) = 2
    /\ feedback = "Added 1 file(s)."
    /\ Len(file_list) >= 2
    /\ \E k \in 1..2 :
          \/ Lower(last.paths[k].ext) \notin SUPPORTED_EXTENSIONS
          \/ \E i \in 1..(Len(file_list) - 1) : file_list[i].data = last.paths[k]

Contiguous(rows) ==
    /\ rows # {}
    /\ \A r \in rows, t \in rows : \A m \in r..t : m \in rows

\* C6: reorder with offset +1 of a contiguous selection (also one that
\* touches the end of the list) keeps the selected entries in their
\* relative order.
C6_DownKeepsSelectedOrder ==
    (last.op = "move" /\ last.offset = 1 /\ Contiguous(last.rows)) =>
        \A i, j \in 1..Len(last.perm) :
            (i < j /\ last.perm[i] \in last.rows /\ last.perm[j] \in last.rows)
                => last.perm[i] < last.perm[j]

\* C7: a selected entry whose target row is out of bounds stays at its row.
C7_OutOfBoundsStays ==
    last.op = "move" =>
        \A r \in last.rows :
            (r + last.offset < 0 \/ r + last.offset >= Len(last.perm))
                => last.perm[r + 1] = r

\* C8: a rename that fails with UnsupportedExtension, NameConflictDeclined
\* or RenameFailed leaves the files on disk and the list unchanged; an
\* entry's path and display name change only with a successful os.rename
\* from the old path to the new one.
C8_FailedRenameChangesNothing ==
    [][last'.op = "rename" =>
        /\ last'.result \in {"UnsupportedExtension", "NameConflictDeclined",
                              "RenameFailed", "cancelled"}
              => UNCHANGED <<file_list, disk>>
        /\ (feedback' \in {UnsupportedMsg, RenameFailedMsg} /\ feedback' # feedback)
              => UNCHANGED <<file_list, disk>>
        /\ Len(file_list') = Len(file_list)
        /\ \A i \in 1..Len(file_list) :
              file_list'[i] # file_list[i] =>
                 /\ i = last'.row + 1
                 /\ last'.result = "ok"
                 /\ file_list[i].data \in disk
                 /\ disk' = (disk \ {file_list[i].data}) \cup {file_list'[i].data}
                 /\ file_list'[i].text = Name(file_list'[i].data)
        /\ disk' # disk => last'.result = "ok"
    ]_vars

\* a rename that reached os.rename and failed there
C8_Witness ==
    /\ last.op = "rename"
    /\ last.result = "RenameFailed"
    /\ feedback = RenameFailedMsg

--------------------------------------------------------------------------
(* Properties of merge *)

\* C2: when a merge started by _merge_files has returned, on whatever exit
\* path, no temporary PDF created during that invocation is left in the
\* temporary directory.
C2_TempFilesDeleted ==
    (m_pc = "done" /\ last.op = "merge") =>
        \A t \in created : t \notin DOMAIN tmpfs

\* pages an input contributes: all pages of a PDF, one per frame of a TIFF,
\* one for a JPG
InputPageCount(path) ==
    CASE Lower(path.ext) = ".pdf" -> MaxPages
      [] Lower(path.ext) \in {".tif", ".tiff"} -> MaxFrames
      [] Lower(path.ext) \in {".jpg", ".jpeg"} -> 1
      [] OTHER -> 0

RECURSIVE ExpectedPages(_)
\* the pages of the inputs, input after input
ExpectedPages(ps) ==
    IF ps = <<>> THEN <<>>
    ELSE [n \in 1..InputPageCount(Head(ps)) |-> Page(Head(ps), n)]
         \o ExpectedPages(Tail(ps))

RECURSIVE SumPageCounts(_)
SumPageCounts(ps) ==
    IF ps = <<>> THEN 0 ELSE InputPageCount(Head(ps)) + SumPageCounts(Tail(ps))

\* C10: a successful merge has written one PDF at output_path whose pages
\* are the pages of the inputs in list order; their number is the sum of
\* the inputs' page counts.
C10_MergedPagesInOrder ==
    (m_pc = "done" /\ m_exc = "none" /\ last.op = "merge") =>
        /\ m_paths = [i \in 1..Len(file_list) |-> file_list[i].data]
        /\ output_path \in DOMAIN outputs
        /\ outputs[output_path] = ExpectedPages(m_paths)
        /\ Len(outputs[output_path]) = SumPageCounts(m_paths)

\* a successful merge of a JPG, a PDF and a TIFF, in that order
C10_Witness ==
    /\ m_pc = "done"
    /\ m_exc = "none"
    /\ last.op = "merge"
    /\ m_paths = <<P("j", ".JPG"), P("a", ".pdf"), P("c", ".tif")>>
    /\ Len(outputs[output_path]) = 1 + MaxPages + MaxFrames

--------------------------------------------------------------------------
(* Properties of export and of conflict resolution *)

\* JPG files an input yields when nothing fails
ExportCount(path) ==
    CASE Lower(path.ext) = ".pdf" -> MaxPages
      [] Lower(path.ext) \in {".tif", ".tiff"} -> MaxFrames
      [] OTHER -> 1

RECURSIVE ExpectedIssues(_, _, _)
\* "<filename>: <message>" for each failing path, in list order
ExpectedIssues(ps, outs, k) ==
    IF k > Len(outs) THEN <<>>
    ELSE (IF outs[k] = "ok" THEN <<>>
          ELSE <<Name(ps[k]) \o ": " \o ExcText(outs[k], ps[k])>>)
         \o ExpectedIssues(ps, outs, k + 1)

RECURSIVE ExpectedExported(_, _, _)
\* the files of the paths that did not fail
ExpectedExported(ps, outs, k) ==
    IF k > Len(outs) THEN 0
    ELSE (IF outs[k] = "ok" THEN ExportCount(ps[k]) ELSE 0)
         + ExpectedExported(ps, outs, k + 1)

\* every path was handled, each failing one left one error string and the
\* count holds all files of the others
AllPathsHandled ==
    /\ Len(outcomes) = Len(e_paths)
    /\ issues = ExpectedIssues(e_paths, outcomes, 1)
    /\ exported_files = ExpectedExported(e_paths, outcomes, 1)

\* C3 as claimed: whatever the kind of failure of one file (UnsupportedFile,
\* ConversionFailed, MissingDependency), export handles every other path,
\* notes one error string for the failing file and counts all files of the
\* others.
C3_NoFailureAborts ==
    e_pc = "done" => AllPathsHandled

\* C3 amended: a failure other than a missing dependency is isolated as
\* claimed; a missing dependency (ImportError) ends the export at that
\* path, and the paths after it are not handled.
C3_FailuresIsolatedExceptImport ==
    e_pc = "done" =>
        IF \E k \in 1..Len(outcomes) : outcomes[k] = "MissingDependency"
        THEN /\ outcomes[Len(outcomes)] = "MissingDependency"
             /\ \A k \in 1..(Len(outcomes) - 1) : outcomes[k] # "MissingDependency"
             /\ Len(outcomes) <= Len(e_paths)
             /\ e_i = Len(outcomes)
             /\ Len(issues) = Cardinality({k \in 1..Len(outcomes) :
                                  outcomes[k] \notin {"ok", "MissingDependency"}})
        ELSE AllPathsHandled

\* an export of a PDF and a TIFF that cannot be opened: the PDF's pages
\* are counted and the TIFF left one error string
C3_Witness ==
    /\ e_pc = "done"
    /\ Len(e_paths) = 2
    /\ outcomes = <<"ok", "ConversionFailed">>
    /\ Lower(e_paths[1].ext) = ".pdf"
    /\ exported_files = MaxPages
    /\ issues = <<"x.TIF: cannot convert file">>

\* C4: no step of an export replaces or removes a file of the output
\* directory, and every write of a JPG adds a file under a name that was
\* free (files present before the run and files written earlier in it).
C4_NoOverwrite ==
    [][/\ \A x \in DOMAIN outdir :
             x \in DOMAIN outdir' /\ outdir'[x] = outdir[x]
       /\ nwrites' = nwrites + 1 =>
             Cardinality(DOMAIN outdir') = Cardinality(DOMAIN outdir) + 1
    ]_vars

\* the first page of x.pdf was written beside an older x_page001.jpg
C4_Witness ==
    /\ nwrites >= 1
    /\ P("x_page001", ".jpg") \in DOMAIN outdir
    /\ outdir[P("x_page001", ".jpg")] = <<"old">>
    /\ P("x_page001_1", ".jpg") \in DOMAIN outdir
    /\ outdir[P("x_page001_1", ".jpg")] = <<D("d1", "x", ".pdf"), 1>>

\* names a converter can ask for
ResolveCandidates ==
    {P("p", ".jpg"), P("p_1", ".jpg"), P("x_page001", ".jpg"),
     P("x_frame002", ".jpg"), P("fresh", ".jpg")}

\* C9: resolve returns a free candidate unchanged; for a taken one it
\* returns stem_k + extension for the smallest k >= 1 that is free; the
\* result never exists, and the search ends within as many tries as there
\* are files.
C9_ResolveFirstFree ==
    \A c \in ResolveCandidates :
        LET files == DOMAIN outdir
            r == ResolveConflictPath(c, files)
            suffixed(k) == [stem |-> c.stem \o "_" \o ToString(k), ext |-> c.ext]
        IN /\ r \notin files
           /\ c \notin files => r = c
           /\ c \in files =>
                \E k \in 1..Cardinality(files) :
                    /\ r = suffixed(k)
                    /\ \A j \in 1..(k - 1) : suffixed(j) \in files

\* p.jpg and p_1.jpg were taken and an export wrote p_2.jpg
C9_Witness ==
    /\ {P("p", ".jpg"), P("p_1", ".jpg"), P("p_2", ".jpg")} \subseteq DOMAIN outdir
    /\ outdir[P("p_2", ".jpg")] # <<"old">>
    /\ ResolveConflictPath(P("p", ".jpg"), DOMAIN outdir \ {P("p_2", ".jpg")})
         = P("p_2", ".jpg")

\* C11: the count an export reports is the number of JPG files the run
\* wrote into the output directory, also when an input failed after some
\* of its pages or frames were written.
C11_CountIsFilesWritten ==
    (e_pc = "done" /\ e_i > Len(e_paths)) => exported_files = nwrites

--------------------------------------------------------------------------
(* Merge is fail-fast *)

\* C12: merge stops at the first input whose extension is unsupported or
\* whose conversion fails: the for loop is left for the finally clause, no
\* later input is appended or converted, the one error is what is shown,
\* and the output file is neither created nor changed; the output is
\* written only from the write after every input was appended.
C12_MergeFailFast ==
    [][/\ (m_pc = "loop" /\ m_exc' # "none") =>
             /\ m_exc' \in {"UnsupportedFile", "ConversionFailed", "ImportError"}
             /\ m_pc' = "finally"
             /\ merger' = merger
             /\ outputs' = outputs
       /\ (m_pc \in {"finally", "done"} /\ m_exc # "none") =>
             /\ m_exc' # "none"
             /\ merger' = merger
             /\ tmp_count' = tmp_count
             /\ outputs' = outputs
       /\ outputs' # outputs =>
             /\ m_pc = "write"
             /\ m_exc = "none"
             /\ Len(merger) = SumPageCounts(m_paths)
       /\ (m_pc = "done" /\ m_pc' = "idle" /\ m_exc # "none") =>
             feedback' \in {"Merge failed: " \o m_exc,
                            "Missing dependency: " \o m_exc
                            \o ". Install the required package and try again."}
    ]_vars

\* a merge of an unsupported file and a PDF has returned: the error is the
\* first input's, the PDF was not appended and no output file exists
C12_Witness ==
    /\ m_pc = "done"
    /\ m_exc = "UnsupportedFile"
    /\ Len(m_paths) = 2
    /\ m_paths[1] \in UnsupportedInputs
    /\ Lower(m_paths[2].ext) = ".pdf"
    /\ merger = <<>>
    /\ output_path \notin DOMAIN outputs

--------------------------------------------------------------------------
(* _move_selection as a function of list, selection and offset *)

MaxRows == 4
MaxOffset == 2

\* a list of n distinct files, rows 0..n-1
ReorderList(n) ==
    [i \in 1..n |-> LET p == P("f" \o ToString(i), ".pdf")
                    IN Item(Name(p), p, FALSE)]

ReorderOffsets == (-MaxOffset..MaxOffset) \ {0}

InitReorder ==
    /\ \E n \in 1..MaxRows : \E S \in SUBSET (0..(n - 1)) :
            file_list = SetSelection(ReorderList(n), S)
    /\ disk = InitialDisk
    /\ feedback = ""
    /\ last = NoLast
    /\ MergeIdle
    /\ ExportIdle
    /\ outdir = EmptyFiles

NextReorder ==
    \/ \E S \in SUBSET (0..(Count(file_list) - 1)) : Select(S)
    \/ \E offset \in ReorderOffsets : MoveSelection(offset)

SpecReorder == InitReorder /\ [][NextReorder]_vars

\* perm maps the rows 0..n-1 one-to-one onto the rows 0..n-1
IsPermutation(perm, n) ==
    /\ Len(perm) = n
    /\ \A r \in 0..(n - 1) : \E i \in 1..n : perm[i] = r

\* C13: a reorder with a non-zero offset only permutes the list: same
\* length, every entry of the old list exactly once in the new one, the
\* entries that were not selected in their old relative order, and the
\* same entries selected afterwards.
C13_ReorderPermutes ==
    [][last'.op = "move" =>
          /\ last'.offset # 0
          /\ last'.rows = SelectedRows(file_list)
          /\ Len(file_list') = Len(file_list)
          /\ IsPermutation(last'.perm, Len(file_list))
          /\ \A i \in 1..Len(file_list) :
                /\ file_list'[i].data = file_list[last'.perm[i] + 1].data
                /\ file_list'[i].text = file_list[last'.perm[i] + 1].text
                /\ file_list'[i].sel = file_list[last'.perm[i] + 1].sel
          /\ Unselected(file_list') = Unselected(file_list)
          /\ {file_list'[r + 1].data : r \in SelectedRows(file_list')}
               = {file_list[r + 1].data : r \in SelectedRows(file_list)}
    ]_vars

\* two selected rows were moved by two rows past entries that were not
\* selected
C13_Witness ==
    /\ last.op = "move"
    /\ last.offset \in {-MaxOffset, MaxOffset}
    /\ Cardinality(last.rows) = 2
    /\ Len(file_list) = MaxRows
    /\ \A i \in 1..MaxRows : last.perm[i] # i - 1

==========================================================================
